---- MODULE Spec2Model ----
(***************************************************************************)
(* Client side of the SCRAM-SHA-256 handshake (src/client.rs).             *)
(*                                                                         *)
(* Strings are sequences of bytes (UTF-8 code units, 0..255), so that the  *)
(* byte-level operations of the source (split(','), as_bytes()[..2],      *)
(* &s[..2], starts_with, base64) are modelled as they are computed.        *)
(* Every handshake h owns one state object st[h]; an operation moves the   *)
(* object it is called on and returns the next one.                        *)
(***************************************************************************)
EXTENDS Integers, Sequences, FiniteSets, TLC

VARIABLES
    st,     \* st[h]: the state object of handshake h that is currently alive
    sent,   \* sent[h]: the client messages returned to the caller so far
    res,    \* res[h]: what handle_server_first / handle_server_final returned
    calls,  \* calls[h]: the operations that were called, in order
    inp,    \* inp[h]: the arguments the caller passed to the operations
    examined \* examined[h]: the bytes the comparison of the verifier looked at

vars == <<st, sent, res, calls, inp, examined>>

(***************************************************************************)
(* Program constants.                                                      *)
(***************************************************************************)
NONCE_LENGTH == 24
SHA256_LEN == 32
\* Range::new(33, 125): samples are drawn from RangeLow .. RangeHigh - 1.
RangeLow == 33
RangeHigh == 125
\* if x > 43 { x + 1 }
CommaSkip == 43

(***************************************************************************)
(* Byte strings.                                                           *)
(***************************************************************************)
Comma == <<44>>
IsComma(b) == b = 44
IsEquals(b) == b = 61

Take(s, n) == SubSeq(s, 1, n)
Drop(s, n) == SubSeq(s, n + 1, Len(s))

\* str::starts_with
StartsWith(s, p) == Len(p) <= Len(s) /\ Take(s, Len(p)) = p

\* str::split(','): the fields between the separators; there is always at
\* least one field and an empty field is kept.  SeparatorAt(s, k) is the
\* position of the k-th comma (0 for k = 0, one past the end after the last).
SeparatorAt(s, k) ==
    LET commas == { i \in 1..Len(s) : IsComma(s[i]) }
    IN  IF k = 0 THEN 0
        ELSE IF k > Cardinality(commas) THEN Len(s) + 1
        ELSE CHOOSE i \in commas : Cardinality({ j \in commas : j <= i }) = k

Split(s) ==
    [k \in 1..(Cardinality({ i \in 1..Len(s) : IsComma(s[i]) }) + 1) |->
        SubSeq(s, SeparatorAt(s, k - 1) + 1, SeparatorAt(s, k) - 1)]

\* str::replace(from, to) for a one-byte pattern.
RECURSIVE Replace(_, _, _)
Replace(s, from, to) ==
    IF s = <<>> THEN <<>>
    ELSE (IF Head(s) = from THEN to ELSE <<Head(s)>>) \o Replace(Tail(s), from, to)

\* A byte offset is a char boundary of a UTF-8 string when it is 0, the
\* length, or the offset of a byte that is not a continuation byte.
IsCharBoundary(s, n) ==
    \/ n = 0
    \/ n = Len(s)
    \/ n < Len(s) /\ ~(s[n + 1] >= 128 /\ s[n + 1] <= 191)

(***************************************************************************)
(* base64 (data_encoding::base64): standard alphabet, '=' padding, strict  *)
(* decoding (length a multiple of 4, canonical trailing bits).             *)
(***************************************************************************)
B64Char(v) ==
    IF v < 26 THEN 65 + v
    ELSE IF v < 52 THEN 97 + (v - 26)
    ELSE IF v < 62 THEN 48 + (v - 52)
    ELSE IF v = 62 THEN 43
    ELSE 47

\* The 6-bit value of a character of the alphabet, or -1.
B64Val(c) ==
    IF c >= 65 /\ c <= 90 THEN c - 65
    ELSE IF c >= 97 /\ c <= 122 THEN c - 97 + 26
    ELSE IF c >= 48 /\ c <= 57 THEN c - 48 + 52
    ELSE IF c = 43 THEN 62
    ELSE IF c = 47 THEN 63
    ELSE -1

RECURSIVE Base64EncodeFrom(_, _)
Base64EncodeFrom(b, i) ==
    LET n == Len(b) - i + 1 IN
    IF n <= 0 THEN <<>>
    ELSE IF n = 1 THEN
        << B64Char(b[i] \div 4), B64Char((b[i] % 4) * 16), 61, 61 >>
    ELSE IF n = 2 THEN
        << B64Char(b[i] \div 4),
           B64Char((b[i] % 4) * 16 + b[i + 1] \div 16),
           B64Char((b[i + 1] % 16) * 4), 61 >>
    ELSE
        << B64Char(b[i] \div 4),
           B64Char((b[i] % 4) * 16 + b[i + 1] \div 16),
           B64Char((b[i + 1] % 16) * 4 + b[i + 2] \div 64),
           B64Char(b[i + 2] % 64) >> \o Base64EncodeFrom(b, i + 3)

Base64Encode(b) == Base64EncodeFrom(b, 1)

\* The bytes of one group of four characters, or <<-1>> when it is invalid.
\* Padding is accepted in the last group only.
Base64Group(c1, c2, c3, c4, last) ==
    LET v1 == B64Val(c1)
        v2 == B64Val(c2)
        v3 == B64Val(c3)
        v4 == B64Val(c4)
    IN  IF v1 < 0 \/ v2 < 0 THEN <<-1>>
        ELSE IF c3 = 61 /\ c4 = 61 THEN
            IF last /\ v2 % 16 = 0 THEN << v1 * 4 + v2 \div 16 >> ELSE <<-1>>
        ELSE IF v3 < 0 THEN <<-1>>
        ELSE IF c4 = 61 THEN
            IF last /\ v3 % 4 = 0
            THEN << v1 * 4 + v2 \div 16, (v2 % 16) * 16 + v3 \div 4 >>
            ELSE <<-1>>
        ELSE IF v4 < 0 THEN <<-1>>
        ELSE << v1 * 4 + v2 \div 16, (v2 % 16) * 16 + v3 \div 4, (v3 % 4) * 64 + v4 >>

RECURSIVE Base64DecodeFrom(_, _)
Base64DecodeFrom(s, i) ==
    IF i > Len(s) THEN [ok |-> TRUE, bytes |-> <<>>]
    ELSE LET g == Base64Group(s[i], s[i + 1], s[i + 2], s[i + 3], i + 3 = Len(s))
         IN  IF g = <<-1>> THEN [ok |-> FALSE, bytes |-> <<>>]
             ELSE LET rest == Base64DecodeFrom(s, i + 4)
                  IN  [ok |-> rest.ok, bytes |-> g \o rest.bytes]

Base64Decode(s) ==
    IF Len(s) % 4 # 0 THEN [ok |-> FALSE, bytes |-> <<>>]
    ELSE LET r == Base64DecodeFrom(s, 1)
         IN  IF r.ok THEN r ELSE [ok |-> FALSE, bytes |-> <<>>]

(***************************************************************************)
(* The digest primitives of ring (SHA-256, HMAC-SHA-256, PBKDF2).  They    *)
(* are external to the source; each is modelled as a deterministic keyed   *)
(* function with a SHA256_LEN-byte output that depends on every byte of    *)
(* its inputs (a polynomial accumulator modulo a prime, spread over the    *)
(* output bytes).                                                          *)
(***************************************************************************)
\* The accumulator after the bytes s[lo..hi], starting from acc (the range
\* is halved so that the evaluation depth stays logarithmic).
RECURSIVE AccumulateRange(_, _, _, _)
AccumulateRange(s, lo, hi, acc) ==
    IF lo > hi THEN acc
    ELSE IF lo = hi THEN (acc * 251 + s[lo] + 1) % 8388593
    ELSE LET mid == (lo + hi) \div 2
             left == AccumulateRange(s, lo, mid, acc)
         IN  IF left >= 0 THEN AccumulateRange(s, mid + 1, hi, left) ELSE left

Accumulate(s, i, acc) == AccumulateRange(s, i, Len(s), acc)

Spread(a) ==
    [j \in 1..SHA256_LEN |->
        ((IF j % 3 = 1 THEN a
          ELSE IF j % 3 = 2 THEN a \div 256
          ELSE a \div 65536) + 13 * j) % 256]

\* digest(&SHA256, data)
Sha256(data) == Spread(Accumulate(data, 1, 1))

\* sign(key, data) with a SigningKey made from the key bytes
HmacSha256(key, data) == Spread(Accumulate(key \o <<Len(key)>> \o data, 1, 2))

\* pbkdf2::derive(&HMAC_SHA256, iterations, salt, secret, out)
Pbkdf2(iterations, salt, secret) ==
    Spread(Accumulate(<<iterations \div 256, iterations % 256, Len(salt)>>
                      \o salt \o secret, 1, 3))

(***************************************************************************)
(* Results: Ok, one of the typed errors of error::Error, or a panic of the *)
(* handler (the call unwinds instead of returning).                        *)
(***************************************************************************)
Result(kind, error, detail, field, reason) ==
    [kind |-> kind, error |-> error, detail |-> detail, field |-> field,
     reason |-> reason]

NoResult == Result("None", "", "", "", <<>>)
Ok == Result("Ok", "", "", "", <<>>)
Panic == Result("Panic", "", "", "", <<>>)
ExpectedField(f) == Result("Err", "Protocol", "ExpectedField", f, <<>>)
InvalidField(f) == Result("Err", "Protocol", "InvalidField", f, <<>>)
InvalidNonce == Result("Err", "Protocol", "InvalidNonce", "", <<>>)
UnsupportedExtension == Result("Err", "UnsupportedExtension", "", "", <<>>)
InvalidServer == Result("Err", "InvalidServer", "", "", <<>>)

\* A variant of Authentication that drops the reason the server supplied.
Authentication_NoReason(reason) == Result("Err", "Authentication", "", "", <<>>)

Authentication(reason) == Result("Err", "Authentication", "", "", reason)

(***************************************************************************)
(* str::parse::<u16>(): an optional '+' followed by at least one decimal   *)
(* digit, the value at most 65535.  -1 stands for Err.                     *)
(***************************************************************************)
RECURSIVE ParseDigits(_, _, _)
ParseDigits(s, i, acc) ==
    IF i > Len(s) THEN acc
    ELSE IF s[i] < 48 \/ s[i] > 57 THEN -1
    ELSE LET v == acc * 10 + (s[i] - 48)
         IN  IF v > 65535 THEN -1 ELSE ParseDigits(s, i + 1, v)

ParseU16(s) ==
    LET digits == IF s # <<>> /\ s[1] = 43 THEN Tail(s) ELSE s
    IN  IF digits = <<>> THEN -1 ELSE ParseDigits(digits, 1, 0)

(***************************************************************************)
(* parse_server_first                                                      *)
(***************************************************************************)
Parsed(r, nonce, salt, iterations) ==
    [r |-> r, nonce |-> nonce, salt |-> salt, iterations |-> iterations]

ParseFailed(r) == Parsed(r, <<>>, <<>>, 0)

\* The third field: `i=<iterations>`.
ParseIterations(parts, nonce, salt) ==
    IF Len(parts) < 3 THEN ParseFailed(ExpectedField("Iterations"))
    ELSE IF Len(parts[3]) < 2 THEN ParseFailed(Panic)
    ELSE IF Take(parts[3], 2) # <<105, 61>> THEN ParseFailed(ExpectedField("Iterations"))
    ELSE LET n == ParseU16(Drop(parts[3], 2))
         IN  IF n < 0 THEN ParseFailed(InvalidField("Salt"))
             ELSE Parsed(Ok, nonce, salt, n)

\* The second field: `s=<base64 salt>`.
ParseSalt(parts, nonce) ==
    IF Len(parts) < 2 THEN ParseFailed(ExpectedField("Salt"))
    ELSE IF Len(parts[2]) < 2 THEN ParseFailed(Panic)
    ELSE IF Take(parts[2], 2) # <<115, 61>> THEN ParseFailed(ExpectedField("Salt"))
    ELSE LET d == Base64Decode(Drop(parts[2], 2))
         IN  IF ~d.ok THEN ParseFailed(InvalidField("Salt"))
             ELSE ParseIterations(parts, nonce, d.bytes)

\* A variant of IsExtensionField that slices one byte instead of two.
IsExtensionField_ShortSlice(part) == Take(part, 1) = <<109, 61>>

\* Some(part) if &part.as_bytes()[..2] == b"m="
IsExtensionField(part) == Take(part, 2) = <<109, 61>>

parse_server_first(data) ==
    IF Len(data) < 2 THEN ParseFailed(ExpectedField("Nonce"))
    ELSE LET parts == Split(data)
         IN  \* part.as_bytes()[..2] panics on a field shorter than 2 bytes
             IF Len(parts[1]) < 2 THEN ParseFailed(Panic)
             ELSE IF IsExtensionField(parts[1]) THEN ParseFailed(UnsupportedExtension)
             ELSE IF Take(parts[1], 2) # <<114, 61>> THEN ParseFailed(ExpectedField("Nonce"))
             ELSE ParseSalt(parts, Drop(parts[1], 2))

(***************************************************************************)
(* The four state objects.  NoState: the handshake was not constructed     *)
(* yet.  Consumed: the last state object was moved into a call that        *)
(* returned no next state (an error, a panic, or the final verdict).       *)
(***************************************************************************)
NoState == [tag |-> "None"]
Consumed == [tag |-> "Consumed"]

ClientFirst(gs2header, password, nonce, authcid) ==
    [tag |-> "ClientFirst", gs2header |-> gs2header, password |-> password,
     nonce |-> nonce, authcid |-> authcid]

ServerFirst(gs2header, password, client_nonce, client_first_bare) ==
    [tag |-> "ServerFirst", gs2header |-> gs2header, password |-> password,
     client_nonce |-> client_nonce, client_first_bare |-> client_first_bare]

ClientFinal(server_signature, client_final_msg) ==
    [tag |-> "ClientFinal", server_signature |-> server_signature,
     client_final |-> client_final_msg]

ServerFinal(server_signature) ==
    [tag |-> "ServerFinal", server_signature |-> server_signature]

(***************************************************************************)
(* ClientFirst::with_rng.  authzid is <<>> (None) or <<a>> (Some(a));      *)
(* samples[i] is the i-th value range.ind_sample(&mut rng) returns.        *)
(***************************************************************************)
Gs2Header(authzid) ==
    IF authzid = <<>> THEN <<110, 44, 44>>
    ELSE <<110, 44, 97, 61>> \o authzid[1] \o Comma

\* A variant of NonceChar without the remapping: x as char for every sample.
NonceChar_NoSkip(x) == x

\* A variant of NonceChar whose comparison is off by one (x >= 43).
NonceChar_OffByOne(x) == IF x >= CommaSkip THEN x + 1 ELSE x

NonceChar(x) == IF x > CommaSkip THEN x + 1 ELSE x

MakeNonce(samples) == [i \in 1..NONCE_LENGTH |-> NonceChar(samples[i])]

WithRng(authcid, password, authzid, samples) ==
    ClientFirst(Gs2Header(authzid), password, MakeNonce(samples), authcid)

(***************************************************************************)
(* ClientFirst::client_first                                               *)
(***************************************************************************)
EscapedAuthcid(authcid) ==
    IF \E i \in 1..Len(authcid) : IsComma(authcid[i]) \/ IsEquals(authcid[i])
    THEN authcid
    ELSE Replace(Replace(authcid, 44, <<61, 50, 67>>), 61, <<61, 51, 68>>)

ClientFirstBare(self) ==
    <<110, 61>> \o EscapedAuthcid(self.authcid) \o <<44, 114, 61>> \o self.nonce

ClientFirstMessage(self) == self.gs2header \o ClientFirstBare(self)

\* A variant of ClientFirstNext in which client_first borrows the state
\* instead of taking ownership of it: the ClientFirst object stays usable.
ClientFirstNext_Borrowing(self) == self


\* A variant of ClientFirstNext that does not carry the header over: the
\* next state holds the header of a handshake without authzid.
ClientFirstNext_DefaultHeader(self) ==
    ServerFirst(<<110, 44, 44>>, self.password, self.nonce, ClientFirstBare(self))

ClientFirstNext(self) ==
    ServerFirst(self.gs2header, self.password, self.nonce, ClientFirstBare(self))

(***************************************************************************)
(* ServerFirst::handle_server_first                                        *)
(***************************************************************************)
ClientFinalWithoutProof(gs2header, nonce) ==
    <<99, 61>> \o Base64Encode(gs2header) \o <<44, 114, 61>> \o nonce


\* A variant of AuthMessage that signs the server-first message re-assembled
\* from its first three fields instead of the string as received.
AuthMessage_FirstThreeFields(client_first_bare, server_first, client_final_without_proof) ==
    LET parts == Split(server_first)
    IN  client_first_bare \o Comma
        \o parts[1] \o Comma \o parts[2] \o Comma \o parts[3]
        \o Comma \o client_final_without_proof

\* sign_slice feeds the items to one signing context, one after the other.
AuthMessage(client_first_bare, server_first, client_final_without_proof) ==
    client_first_bare \o Comma \o server_first \o Comma \o client_final_without_proof

\* bit k of a ^ b, in place
XorBit(a, b, k) == (((a \div (2 ^ k)) + (b \div (2 ^ k))) % 2) * (2 ^ k)

Xor8(a, b) ==
    XorBit(a, b, 0) + XorBit(a, b, 1) + XorBit(a, b, 2) + XorBit(a, b, 3)
    + XorBit(a, b, 4) + XorBit(a, b, 5) + XorBit(a, b, 6) + XorBit(a, b, 7)

SaltedPassword(password, salt, iterations) == Pbkdf2(iterations, salt, password)
ClientKey(salted_password) ==
    HmacSha256(salted_password, <<67, 108, 105, 101, 110, 116, 32, 75, 101, 121>>)
ServerKey(salted_password) ==
    HmacSha256(salted_password, <<83, 101, 114, 118, 101, 114, 32, 75, 101, 121>>)
StoredKey(client_key) == Sha256(client_key)
ClientSignature(stored_key, auth_message) == HmacSha256(stored_key, auth_message)
ServerSignature(server_key, auth_message) == HmacSha256(server_key, auth_message)
ClientProof(client_key, client_signature) ==
    [j \in 1..SHA256_LEN |-> Xor8(client_key[j], client_signature[j])]

Handled(r, next) == [r |-> r, next |-> next]

\* A variant of NonceAccepted with the receiver and the argument of
\* starts_with exchanged.
NonceAccepted_Reversed(nonce, client_nonce) == StartsWith(client_nonce, nonce)

\* nonce.starts_with(&self.client_nonce)
NonceAccepted(nonce, client_nonce) == StartsWith(nonce, client_nonce)

HandleServerFirst(self, server_first) ==
    LET p == parse_server_first(server_first)
    IN  IF p.r # Ok THEN Handled(p.r, Consumed)
        ELSE IF ~NonceAccepted(p.nonce, self.client_nonce) THEN Handled(InvalidNonce, Consumed)
        \* pbkdf2::derive asserts iterations >= 1
        ELSE IF p.iterations < 1 THEN Handled(Panic, Consumed)
        ELSE LET without_proof == ClientFinalWithoutProof(self.gs2header, p.nonce)
                 auth_message == AuthMessage(self.client_first_bare, server_first,
                                             without_proof)
                 salted_password == SaltedPassword(self.password, p.salt, p.iterations)
                 client_key == ClientKey(salted_password)
                 server_key == ServerKey(salted_password)
                 client_signature == ClientSignature(StoredKey(client_key), auth_message)
                 server_signature == ServerSignature(server_key, auth_message)
                 client_proof == ClientProof(client_key, client_signature)
                 client_final_msg ==
                     <<99, 61>> \o Base64Encode(self.gs2header) \o <<44, 114, 61>>
                     \o p.nonce \o <<44, 112, 61>> \o Base64Encode(client_proof)
             IN  Handled(Ok, ClientFinal(server_signature, client_final_msg))

(***************************************************************************)
(* ClientFinal::client_final                                               *)
(***************************************************************************)

\* A variant of ClientFinalNext whose next state holds an all-zero digest
\* instead of the signature of the consumed state.
ClientFinalNext_ZeroSignature(self) == ServerFinal([j \in 1..SHA256_LEN |-> 0])

ClientFinalNext(self) == ServerFinal(self.server_signature)
ClientFinalMessage(self) == self.client_final

(***************************************************************************)
(* ServerFinal::handle_server_final                                        *)
(***************************************************************************)
\* A variant of HandleServerFinal that compares the lengths of the verifier
\* and of the signature, not their bytes.
HandleServerFinal_LengthCompare(self, server_final) ==
    IF Len(server_final) < 2 THEN ExpectedField("VerifyOrError")
    ELSE IF ~IsCharBoundary(server_final, 2) THEN Panic
    ELSE IF Take(server_final, 2) = <<118, 61>> THEN
        LET verifier == Base64Decode(Drop(server_final, 2))
        IN  IF ~verifier.ok THEN InvalidField("VerifyOrError")
            ELSE IF Len(self.server_signature) = Len(verifier.bytes) THEN Ok
            ELSE InvalidServer
    ELSE IF Take(server_final, 2) = <<101, 61>> THEN Authentication(Drop(server_final, 2))
    ELSE ExpectedField("VerifyOrError")

\* A variant of HandleServerFinal that compares the verifier only over the
\* bytes the verifier has (zip-style comparison without a length check).
HandleServerFinal_PrefixCompare(self, server_final) ==
    IF Len(server_final) < 2 THEN ExpectedField("VerifyOrError")
    ELSE IF ~IsCharBoundary(server_final, 2) THEN Panic
    ELSE IF Take(server_final, 2) = <<118, 61>> THEN
        LET verifier == Base64Decode(Drop(server_final, 2))
        IN  IF ~verifier.ok THEN InvalidField("VerifyOrError")
            ELSE IF StartsWith(self.server_signature, verifier.bytes) THEN Ok
            ELSE InvalidServer
    ELSE IF Take(server_final, 2) = <<101, 61>> THEN Authentication(Drop(server_final, 2))
    ELSE ExpectedField("VerifyOrError")

HandleServerFinal(self, server_final) ==
    IF Len(server_final) < 2 THEN ExpectedField("VerifyOrError")
    \* &server_final[..2] panics when byte 2 is not a char boundary
    ELSE IF ~IsCharBoundary(server_final, 2) THEN Panic
    ELSE IF Take(server_final, 2) = <<118, 61>> THEN
        LET verifier == Base64Decode(Drop(server_final, 2))
        IN  IF ~verifier.ok THEN InvalidField("VerifyOrError")
            ELSE IF self.server_signature = verifier.bytes THEN Ok
            ELSE InvalidServer
    ELSE IF Take(server_final, 2) = <<101, 61>> THEN Authentication(Drop(server_final, 2))
    ELSE ExpectedField("VerifyOrError")

(***************************************************************************)
(* The work of `self.server_signature.as_ref() == &*verifier`: equality of *)
(* two byte slices compares the lengths and then the contents from the     *)
(* front, and stops at the first difference.  The contents are compared    *)
(* one byte or one machine word at a time, as the build decides.           *)
(***************************************************************************)
CompareWidths == {1, 8}

\* The position of the first byte in which a and b (of one length) differ;
\* one past the end when they are equal.
FirstDifference(a, b) ==
    IF a = b THEN Len(a) + 1
    ELSE CHOOSE i \in 1..Len(a) :
             a[i] # b[i] /\ \A j \in 1..(i - 1) : a[j] = b[j]

\* The number of bytes of a the comparison with b looks at, w bytes a step.
ExaminedBytes(a, b, w) ==
    IF Len(a) # Len(b) THEN 0
    ELSE IF a = b THEN Len(a)
    ELSE LET steps == (FirstDifference(a, b) - 1) \div w + 1
         IN  IF steps * w > Len(a) THEN Len(a) ELSE steps * w

\* The byte counts a call of handle_server_final can spend on the comparison
\* (0: the call returns before it compares).
ComparisonWork(self, server_final) ==
    IF /\ Len(server_final) >= 2
       /\ IsCharBoundary(server_final, 2)
       /\ Take(server_final, 2) = <<118, 61>>
       /\ Base64Decode(Drop(server_final, 2)).ok
    THEN { ExaminedBytes(self.server_signature,
                         Base64Decode(Drop(server_final, 2)).bytes, w) :
               w \in CompareWidths }
    ELSE {0}

(***************************************************************************)
(* The peer: a SCRAM server that follows the wire grammar (RFC 5802).  It  *)
(* is not part of the source; it supplies the server messages of a         *)
(* conformant run.                                                         *)
(***************************************************************************)
\* The number of characters the server appends to the client nonce.
ServerNonceLen == 3
ServerNonceExt == Take(<<115, 114, 118, 110, 99, 101>>, ServerNonceLen)
\* "QSXCR+Q6sek8bf92" and "4096" (RFC 5802, section 5)
ServerSaltText == <<81, 83, 88, 67, 82, 43, 81, 54, 115, 101, 107, 56, 98, 102, 57, 50>>
ServerIterationsText == <<52, 48, 57, 54>>

\* saslname: "=2C" stands for ',' and "=3D" for '='; any other '=' is invalid.
RECURSIVE Unescape(_)
Unescape(s) ==
    IF s = <<>> THEN [ok |-> TRUE, val |-> <<>>]
    ELSE IF IsEquals(s[1]) THEN
        IF Len(s) >= 3 /\ SubSeq(s, 2, 3) \in {<<50, 67>>, <<51, 68>>}
        THEN LET rest == Unescape(Drop(s, 3))
             IN  [ok |-> rest.ok,
                  val |-> (IF s[2] = 50 THEN <<44>> ELSE <<61>>) \o rest.val]
        ELSE [ok |-> FALSE, val |-> <<>>]
    ELSE LET rest == Unescape(Tail(s))
         IN  [ok |-> rest.ok, val |-> <<s[1]>> \o rest.val]

\* client-first-message = gs2-cbind-flag "," [authzid] "," username "," nonce
\*                        ["," extensions]
ServerParseClientFirst(cf) ==
    LET parts == Split(cf)
        bad == [ok |-> FALSE, username |-> <<>>, nonce |-> <<>>, bare |-> <<>>]
    IN  IF Len(parts) < 4 THEN bad
        ELSE IF parts[1] # <<110>> THEN bad
        ELSE IF parts[2] # <<>> /\ ~(Len(parts[2]) > 2 /\ Take(parts[2], 2) = <<97, 61>>)
             THEN bad
        ELSE IF ~(Len(parts[3]) > 2 /\ Take(parts[3], 2) = <<110, 61>>) THEN bad
        ELSE IF ~Unescape(Drop(parts[3], 2)).ok THEN bad
        ELSE IF ~(Len(parts[4]) > 2 /\ Take(parts[4], 2) = <<114, 61>>) THEN bad
        ELSE IF \E k \in 5..Len(parts) : ~(Len(parts[k]) >= 2 /\ IsEquals(parts[k][2]))
             THEN bad
        ELSE [ok |-> TRUE,
              username |-> Unescape(Drop(parts[3], 2)).val,
              nonce |-> Drop(parts[4], 2),
              bare |-> Drop(cf, Len(parts[1]) + Len(parts[2]) + 2)]

\* server-first-message = "r=" c-nonce s-nonce ",s=" salt ",i=" iteration-count
WellFormedServerFirst(nonce) ==
    <<114, 61>> \o nonce \o <<44, 115, 61>> \o ServerSaltText
    \o <<44, 105, 61>> \o ServerIterationsText

ConformantServerFirst(cf) ==
    WellFormedServerFirst(ServerParseClientFirst(cf).nonce \o ServerNonceExt)

\* The ServerSignature the server computes from its own view of the
\* transcript: the client-first-message-bare it received, the server-first
\* message it sent, and the client-final-message-without-proof that carries
\* the GS2 header it received and the nonce it sent.
ConformantServerSignature(password, cf) ==
    LET p == ServerParseClientFirst(cf)
        gs2 == Take(cf, Len(cf) - Len(p.bare))
        auth_message ==
            AuthMessage(p.bare, ConformantServerFirst(cf),
                        ClientFinalWithoutProof(gs2, p.nonce \o ServerNonceExt))
        salted_password ==
            SaltedPassword(password, Base64Decode(ServerSaltText).bytes,
                           ParseU16(ServerIterationsText))
    IN  ServerSignature(ServerKey(salted_password), auth_message)

ConformantServerFinal(password, cf) ==
    <<118, 61>> \o Base64Encode(ConformantServerSignature(password, cf))

(***************************************************************************)
(* The arguments the callers pass.                                         *)
(***************************************************************************)
\* "user", "a,b", "x=y"
Authcids == { <<117, 115, 101, 114>>, <<97, 44, 98>>, <<120, 61, 121>> }
\* "pencil", "pw"
Passwords == { <<112, 101, 110, 99, 105, 108>>, <<112, 119>> }
\* None, Some("adm")
Authzids == { <<>>, << <<97, 100, 109>> >> }

\* The random source: sample i is RangeLow + (start + (i - 1) * step) modulo
\* the width of the range.  <<10, 1>> walks over 43, 44 (the values around
\* the skipped comma) and 60; <<91, 0>> is the largest sample.
RngBehaviours == { <<0, 0>>, <<10, 1>>, <<27, 0>>, <<91, 0>> }
RngSamples(b) ==
    [i \in 1..NONCE_LENGTH |->
        RangeLow + ((b[1] + (i - 1) * b[2]) % (RangeHigh - RangeLow))]

\* s with the byte at position p replaced by b
SetByte(s, p, b) == [s EXCEPT ![p] = b]

\* ',' and 'x'
TamperBytes == {44, 120}

\* The server-first message for the client nonce cn with one byte of its
\* nonce field changed.
TamperedServerFirst(sf, cn) ==
    { SetByte(sf, 2 + p, b) :
        <<p, b>> \in { t \in (1..(Len(cn) + ServerNonceLen)) \X TamperBytes :
                        sf[2 + t[1]] # t[2] } }

ServerFirstFields(cn) ==
    LET firsts == { <<114, 61>> \o cn \o ServerNonceExt,   \* r=<cn><ext>
                    <<114, 61>> \o cn,                     \* r=<cn>
                    <<114, 61, 122, 122>> \o ServerNonceExt, \* r=zz<ext>
                    <<120, 61, 97, 98, 99>>,               \* x=abc
                    <<109, 61, 101, 120, 116>> }           \* m=ext
        seconds == { <<115, 61>> \o ServerSaltText,        \* s=<salt>
                     <<115, 61, 33, 33, 33, 33>>,          \* s=!!!!
                     <<120, 61, 49>> }                     \* x=1
        thirds == { <<105, 61>> \o ServerIterationsText,   \* i=4096
                    <<105, 61, 97, 98, 99>>,               \* i=abc
                    <<105, 61, 48>>,                       \* i=0
                    <<105, 61, 54, 53, 53, 51, 54>>,       \* i=65536
                    <<120, 61, 49>> }                      \* x=1
    IN  { f \o Comma \o s \o Comma \o t : f \in firsts, s \in seconds, t \in thirds }
        \cup { f \o Comma \o s : f \in firsts, s \in seconds }
        \cup firsts

ServerFirstInputs(cn) ==
    LET wf == WellFormedServerFirst(cn \o ServerNonceExt)
    IN  ServerFirstFields(cn)
        \cup TamperedServerFirst(wf, cn)
        \cup { wf \o <<44, 120, 61, 101, 120, 116>>,       \* ...,x=ext
               <<109, 61>> \o wf,                          \* m=r=...
               <<109, 61, 49, 44>> \o wf,                  \* m=1,r=...
               <<>>, <<114>>, <<109, 61>>, <<44, 44>>,     \* "", r, m=, ",,"
               <<114, 61, 97, 98, 99, 44, 115>>,           \* r=abc,s
               <<114, 61, 97, 98, 99, 44, 115, 61, 65, 65, 65, 65, 44, 105>> }

ServerFinalInputs(sig, conformant) ==
    { <<118, 61>> \o Base64Encode(sig),                    \* v=<signature>
      conformant,
      <<118, 61>> \o Base64Encode(SetByte(sig, SHA256_LEN, (sig[SHA256_LEN] + 1) % 256)),
      <<118, 61>> \o Base64Encode(Take(sig, SHA256_LEN - 1)),
      <<118, 61>>,                                         \* v=
      <<118, 61, 33, 33, 33, 33>>,                         \* v=!!!!
      \* e=invalid-encoding
      <<101, 61, 105, 110, 118, 97, 108, 105, 100, 45, 101, 110, 99, 111, 100, 105, 110, 103>>,
      <<101, 61>>,                                         \* e=
      <<120, 61, 97, 98, 99>>,                             \* x=abc
      <<>>, <<118>>,                                       \* "", v
      <<118, 195, 169>> }                                  \* v followed by U+00E9

(***************************************************************************)
(* The state machine.                                                      *)
(***************************************************************************)
Handshakes == {1}

NoInput ==
    [authcid |-> <<>>, password |-> <<>>, authzid |-> <<>>, samples |-> <<>>,
     server_first |-> <<>>, server_final |-> <<>>]

Init ==
    /\ st = [h \in Handshakes |-> NoState]
    /\ sent = [h \in Handshakes |-> <<>>]
    /\ res = [h \in Handshakes |-> [first |-> NoResult, final |-> NoResult]]
    /\ calls = [h \in Handshakes |-> <<>>]
    /\ inp = [h \in Handshakes |-> NoInput]
    /\ examined = [h \in Handshakes |-> 0]

with_rng(h, authcid, password, authzid, samples) ==
    /\ st[h].tag = "None"
    /\ st' = [st EXCEPT ![h] = WithRng(authcid, password, authzid, samples)]
    /\ calls' = [calls EXCEPT ![h] = Append(@, "with_rng")]
    /\ inp' = [inp EXCEPT ![h].authcid = authcid, ![h].password = password,
                          ![h].authzid = authzid, ![h].samples = samples]
    /\ UNCHANGED <<sent, res, examined>>

client_first(h) ==
    /\ st[h].tag = "ClientFirst"
    /\ st' = [st EXCEPT ![h] = ClientFirstNext(st[h])]
    /\ sent' = [sent EXCEPT ![h] = Append(@, ClientFirstMessage(st[h]))]
    /\ calls' = [calls EXCEPT ![h] = Append(@, "client_first")]
    /\ UNCHANGED <<res, inp, examined>>


\* A variant of handle_server_first that borrows the state: when the call
\* returns an error the ServerFirst object is still usable.
handle_server_first_Borrowing(h, server_first) ==
    /\ st[h].tag = "ServerFirst"
    /\ LET r == HandleServerFirst(st[h], server_first)
       IN  /\ st' = [st EXCEPT ![h] = IF r.r = Ok THEN r.next ELSE st[h]]
           /\ res' = [res EXCEPT ![h].first = r.r]
    /\ calls' = [calls EXCEPT ![h] = Append(@, "handle_server_first")]
    /\ inp' = [inp EXCEPT ![h].server_first = server_first]
    /\ UNCHANGED <<sent, examined>>

handle_server_first(h, server_first) ==
    /\ st[h].tag = "ServerFirst"
    /\ LET r == HandleServerFirst(st[h], server_first)
       IN  /\ st' = [st EXCEPT ![h] = r.next]
           /\ res' = [res EXCEPT ![h].first = r.r]
    /\ calls' = [calls EXCEPT ![h] = Append(@, "handle_server_first")]
    /\ inp' = [inp EXCEPT ![h].server_first = server_first]
    /\ UNCHANGED <<sent, examined>>

client_final(h) ==
    /\ st[h].tag = "ClientFinal"
    /\ st' = [st EXCEPT ![h] = ClientFinalNext(st[h])]
    /\ sent' = [sent EXCEPT ![h] = Append(@, ClientFinalMessage(st[h]))]
    /\ calls' = [calls EXCEPT ![h] = Append(@, "client_final")]
    /\ UNCHANGED <<res, inp, examined>>


\* A variant of handle_server_final in which the state objects of all
\* handshakes live in one shared place: the call consumes every one of them.
handle_server_final_SharedState(h, server_final) ==
    /\ st[h].tag = "ServerFinal"
    /\ st' = [g \in DOMAIN st |-> Consumed]
    /\ res' = [res EXCEPT ![h].final = HandleServerFinal(st[h], server_final)]
    /\ calls' = [calls EXCEPT ![h] = Append(@, "handle_server_final")]
    /\ inp' = [inp EXCEPT ![h].server_final = server_final]
    /\ \E n \in ComparisonWork(st[h], server_final) :
           examined' = [examined EXCEPT ![h] = n]
    /\ UNCHANGED sent

handle_server_final(h, server_final) ==
    /\ st[h].tag = "ServerFinal"
    /\ st' = [st EXCEPT ![h] = Consumed]
    /\ res' = [res EXCEPT ![h].final = HandleServerFinal(st[h], server_final)]
    /\ calls' = [calls EXCEPT ![h] = Append(@, "handle_server_final")]
    /\ inp' = [inp EXCEPT ![h].server_final = server_final]
    /\ \E n \in ComparisonWork(st[h], server_final) :
           examined' = [examined EXCEPT ![h] = n]
    /\ UNCHANGED sent

Construct ==
    \E h \in DOMAIN st, authcid \in Authcids, password \in Passwords,
       authzid \in Authzids, b \in RngBehaviours :
        with_rng(h, authcid, password, authzid, RngSamples(b))

SendFirst == \E h \in DOMAIN st : client_first(h)

ReceiveFirst ==
    \E h \in DOMAIN st :
        /\ st[h].tag = "ServerFirst"
        /\ \E m \in ServerFirstInputs(st[h].client_nonce) : handle_server_first(h, m)

SendFinal == \E h \in DOMAIN st : client_final(h)

ReceiveFinal ==
    \E h \in DOMAIN st :
        /\ st[h].tag = "ServerFinal"
        /\ \E m \in ServerFinalInputs(st[h].server_signature,
                                      ConformantServerFinal(inp[h].password, sent[h][1])) :
               handle_server_final(h, m)

Next == Construct \/ SendFirst \/ ReceiveFirst \/ SendFinal \/ ReceiveFinal

Spec == Init /\ [][Next]_vars

(***************************************************************************)
(* Two handshakes side by side, e.g. two client connections of one         *)
(* process; their calls interleave in every order.  Each handshake owns    *)
(* its state objects; the source has no static and no shared field.        *)
(***************************************************************************)
PairHandshakes == {1, 2}

\* The two ends of the sample range the nonce is drawn from.
PairRngBehaviours == { <<0, 0>>, <<91, 0>> }

\* The conformant message, a nonce of another handshake, an empty field.
PairServerFirstInputs(cn) ==
    { WellFormedServerFirst(cn \o ServerNonceExt),
      WellFormedServerFirst(<<122, 122>> \o ServerNonceExt),
      <<44, 44>> }

\* The right verifier, one whose first byte is wrong, one whose last byte is
\* wrong, an error of the server.
PairServerFinalInputs(sig) ==
    { <<118, 61>> \o Base64Encode(sig),
      <<118, 61>> \o Base64Encode(SetByte(sig, 1, (sig[1] + 1) % 256)),
      <<118, 61>> \o Base64Encode(SetByte(sig, SHA256_LEN, (sig[SHA256_LEN] + 1) % 256)),
      <<101, 61, 105, 110, 118, 97, 108, 105, 100, 45, 101, 110, 99, 111, 100, 105, 110, 103>> }

InitPair ==
    /\ st = [h \in PairHandshakes |-> NoState]
    /\ sent = [h \in PairHandshakes |-> <<>>]
    /\ res = [h \in PairHandshakes |-> [first |-> NoResult, final |-> NoResult]]
    /\ calls = [h \in PairHandshakes |-> <<>>]
    /\ inp = [h \in PairHandshakes |-> NoInput]
    /\ examined = [h \in PairHandshakes |-> 0]

ConstructPair ==
    \E h \in DOMAIN st, password \in Passwords, b \in PairRngBehaviours :
        with_rng(h, <<117, 115, 101, 114>>, password, <<>>, RngSamples(b))

ReceiveFirstPair ==
    \E h \in DOMAIN st :
        /\ st[h].tag = "ServerFirst"
        /\ \E m \in PairServerFirstInputs(st[h].client_nonce) : handle_server_first(h, m)

ReceiveFinalPair ==
    \E h \in DOMAIN st :
        /\ st[h].tag = "ServerFinal"
        /\ \E m \in PairServerFinalInputs(st[h].server_signature) :
               handle_server_final(h, m)

NextPair ==
    ConstructPair \/ SendFirst \/ ReceiveFirstPair \/ SendFinal \/ ReceiveFinalPair

SpecPair == InitPair /\ [][NextPair]_vars

(***************************************************************************)
(* Properties.                                                             *)
(***************************************************************************)
Called(h, op) == \E i \in 1..Len(calls[h]) : calls[h][i] = op

PipelineOrder ==
    <<"with_rng", "client_first", "handle_server_first", "client_final",
      "handle_server_final">>

\* The number of calls of op made on handshake h.
CallCount(h, op) == Cardinality({ i \in 1..Len(calls[h]) : calls[h][i] = op })

\* The tag of the state object that is alive after the first n calls of a
\* handshake in which no call failed.
TagAfter(n) ==
    <<"None", "ClientFirst", "ServerFirst", "ClientFinal", "ServerFinal", "Consumed">>[n + 1]

\* C1: the operations of one handshake occur only in the order with_rng,
\* client_first, handle_server_first, client_final, handle_server_final,
\* each at most once; the state object alive is the one the last call
\* produced, or none once a call consumed it without producing a next one;
\* every client message is emitted at most once, by its own operation.
C1_LinearPipeline ==
    \A h \in DOMAIN st :
        /\ Len(calls[h]) <= Len(PipelineOrder)
        /\ calls[h] = Take(PipelineOrder, Len(calls[h]))
        /\ st[h].tag \in {TagAfter(Len(calls[h])), "Consumed"}
        /\ st[h].tag = "Consumed" => Len(calls[h]) >= 3
        /\ Len(sent[h]) = CallCount(h, "client_first") + CallCount(h, "client_final")
        /\ CallCount(h, "client_first") <= 1
        /\ CallCount(h, "client_final") <= 1

C1_Witness ==
    \E h \in DOMAIN st :
        /\ calls[h] = PipelineOrder
        /\ Len(sent[h]) = 2
        /\ st[h].tag = "Consumed"

\* The state handle_server_first was called on, rebuilt from the arguments
\* of the constructor.
ServerFirstStateOf(h) ==
    ClientFirstNext(WithRng(inp[h].authcid, inp[h].password, inp[h].authzid,
                            inp[h].samples))

\* The ServerSignature handle_server_first computed for handshake h.
ComputedServerSignature(h) ==
    HandleServerFirst(ServerFirstStateOf(h), inp[h].server_first).next.server_signature

\* C2: handle_server_final returns Ok if and only if the message begins with
\* `v=` and the base64-decoding of the remainder equals, byte for byte, the
\* ServerSignature handle_server_first computed; a `v=` message that decodes
\* to other bytes gives InvalidServer.
C2_FinalVerdict ==
    \A h \in DOMAIN st :
        Called(h, "handle_server_final") =>
            LET m == inp[h].server_final
                isVerify == StartsWith(m, <<118, 61>>)
                d == Base64Decode(Drop(m, 2))
                sig == ComputedServerSignature(h)
            IN  /\ res[h].final = Ok <=> (isVerify /\ d.ok /\ d.bytes = sig)
                /\ (isVerify /\ d.ok /\ d.bytes # sig) => res[h].final = InvalidServer

C2_Witness ==
    \E h \in DOMAIN st :
        /\ Called(h, "handle_server_final")
        /\ res[h].final = Ok
        /\ inp[h].server_final = <<118, 61>> \o Base64Encode(ComputedServerSignature(h))

\* What parse_server_first makes of the server-first message of handshake h.
ParsedServerFirst(h) == parse_server_first(inp[h].server_first)

\* The client nonce of handshake h, as held by the state handle_server_first
\* was called on.
ClientNonceOf(h) == ServerFirstStateOf(h).client_nonce

\* handle_server_first of handshake h returned r and produced no next state
\* and no client-final message.
FailedFirstWith(h, r) ==
    /\ res[h].first = r
    /\ st[h].tag = "Consumed"
    /\ Len(sent[h]) = 1
    /\ calls[h] = Take(PipelineOrder, 3)

\* C3 (as stated): a well-formed server-first message whose nonce does not
\* have the client nonce as a strict prefix is rejected with InvalidNonce.
C3_StrictPrefixRequired ==
    \A h \in DOMAIN st :
        Called(h, "handle_server_first") /\ ParsedServerFirst(h).r = Ok =>
            LET nonce == ParsedServerFirst(h).nonce
                strict == StartsWith(nonce, ClientNonceOf(h))
                          /\ Len(nonce) > Len(ClientNonceOf(h))
            IN  ~strict => res[h].first = InvalidNonce

\* C3 (amended): for a well-formed server-first message, handle_server_first
\* fails with InvalidNonce exactly when the server nonce does not begin with
\* the client nonce, and then no next state and no client-final message is
\* produced; a server nonce equal to the client nonce is accepted (with a
\* positive iteration count the call succeeds).
C3_PrefixRequired ==
    \A h \in DOMAIN st :
        Called(h, "handle_server_first") /\ ParsedServerFirst(h).r = Ok =>
            LET nonce == ParsedServerFirst(h).nonce
                begins == Len(nonce) >= Len(ClientNonceOf(h))
                          /\ \A i \in 1..Len(ClientNonceOf(h)) :
                                 nonce[i] = ClientNonceOf(h)[i]
            IN  /\ res[h].first = InvalidNonce <=> ~begins
                /\ ~begins => FailedFirstWith(h, InvalidNonce)
                /\ (nonce = ClientNonceOf(h) /\ ParsedServerFirst(h).iterations >= 1)
                       => res[h].first = Ok /\ Len(sent[h]) >= 1

C3_Witness ==
    \E h \in DOMAIN st :
        /\ Called(h, "handle_server_first")
        /\ ParsedServerFirst(h).r = Ok
        /\ ~StartsWith(ParsedServerFirst(h).nonce, ClientNonceOf(h))
        /\ FailedFirstWith(h, InvalidNonce)

\* The escaping of a saslname: ',' becomes "=2C", '=' becomes "=3D", every
\* other byte stays.
RECURSIVE SaslEscape(_)
SaslEscape(s) ==
    IF s = <<>> THEN <<>>
    ELSE (IF IsComma(s[1]) THEN <<61, 50, 67>>
          ELSE IF IsEquals(s[1]) THEN <<61, 51, 68>>
          ELSE <<s[1]>>) \o SaslEscape(Tail(s))

CountCommas(s) == Cardinality({ i \in 1..Len(s) : IsComma(s[i]) })

\* C4: the client-first message is the GS2 header followed by
\* `n=<escaped authcid>,r=<nonce>`; the bare part has exactly one comma and
\* un-escaping its `n=` field gives the authcid back.
C4_AuthcidEscaped ==
    \A h \in DOMAIN st :
        Called(h, "client_first") =>
            LET gs2 == Gs2Header(inp[h].authzid)
                bare == Drop(sent[h][1], Len(gs2))
                field == SubSeq(bare, 3, Len(bare) - 3 - NONCE_LENGTH)
            IN  /\ StartsWith(sent[h][1], gs2)
                /\ bare = <<110, 61>> \o SaslEscape(inp[h].authcid)
                          \o <<44, 114, 61>> \o ClientNonceOf(h)
                /\ CountCommas(bare) = 1
                /\ Unescape(field) = [ok |-> TRUE, val |-> inp[h].authcid]

NoComma(s) == \A i \in 1..Len(s) : ~IsComma(s[i])

\* The last n bytes of s.
Suffix(s, n) == SubSeq(s, Len(s) - n + 1, Len(s))

\* C5: the nonce the constructor builds has NONCE_LENGTH characters and no
\* comma, whatever the samples are; client_first moves it unchanged into the
\* next state (the value the server nonce is compared against) and into the
\* `r=` field that ends the client-first message.
C5_NonceFixedLength ==
    /\ [](/\ \A x \in RangeLow..(RangeHigh - 1) : ~IsComma(NonceChar(x))
          /\ \A h \in DOMAIN st :
                /\ st[h].tag = "ClientFirst" =>
                       Len(st[h].nonce) = NONCE_LENGTH /\ NoComma(st[h].nonce)
                /\ st[h].tag = "ServerFirst" =>
                       /\ Len(st[h].client_nonce) = NONCE_LENGTH
                       /\ NoComma(st[h].client_nonce)
                       /\ Suffix(sent[h][1], NONCE_LENGTH + 3)
                              = <<44, 114, 61>> \o st[h].client_nonce)
    /\ [][\A h \in DOMAIN st :
             st[h].tag = "ClientFirst" /\ st'[h].tag = "ServerFirst" =>
                 /\ st'[h].client_nonce = st[h].nonce
                 /\ Suffix(sent'[h][1], NONCE_LENGTH) = st[h].nonce]_vars

C5_Witness ==
    \E h \in DOMAIN st :
        /\ st[h].tag = "ServerFirst"
        /\ Len(st[h].client_nonce) = NONCE_LENGTH
        /\ Suffix(sent[h][1], NONCE_LENGTH) = st[h].client_nonce
        /\ \E i \in 1..NONCE_LENGTH : inp[h].samples[i] = CommaSkip + 1

\* C6 (as stated): the client nonce never contains '='.
C6_NonceNoEquals ==
    \A h \in DOMAIN st :
        st[h].tag = "ClientFirst" =>
            \A i \in 1..Len(st[h].nonce) : ~IsEquals(st[h].nonce[i])

\* C6 (amended): every character of the client nonce is a printable ASCII
\* character from '!' (33) to '}' (125) other than the comma; '=' is not
\* excluded: it is the character the sample 60 yields.
C6_NoncePrintableNoComma ==
    \A h \in DOMAIN st :
        st[h].tag = "ClientFirst" =>
            \A i \in 1..Len(st[h].nonce) :
                /\ st[h].nonce[i] \in (RangeLow..RangeHigh) \ {44}
                /\ IsEquals(st[h].nonce[i]) <=> inp[h].samples[i] = 60

C6_Witness ==
    \E h \in DOMAIN st :
        /\ st[h].tag = "ClientFirst"
        /\ \E i \in 1..Len(st[h].nonce) : IsEquals(st[h].nonce[i])

\* C7: a server-first message that begins with `m=` makes
\* handle_server_first fail with UnsupportedExtension, whatever follows; no
\* next state and no client-final message is produced.
C7_ExtensionRejected ==
    \A h \in DOMAIN st :
        Called(h, "handle_server_first") /\ StartsWith(inp[h].server_first, <<109, 61>>)
            => FailedFirstWith(h, UnsupportedExtension)

\* The extension field is followed by a server-first message that would be
\* accepted without it.
C7_Witness ==
    \E h \in DOMAIN st :
        /\ Called(h, "handle_server_first")
        /\ inp[h].server_first =
               <<109, 61, 49, 44>> \o WellFormedServerFirst(ClientNonceOf(h) \o ServerNonceExt)
        /\ FailedFirstWith(h, UnsupportedExtension)

HasField(parts, k, name) ==
    Len(parts) >= k /\ Len(parts[k]) >= 2 /\ Take(parts[k], 2) = name

\* The protocol error that names the first field at fault, in the order
\* nonce, salt, iterations; Ok when no field is at fault.
FaultyFieldError(m) ==
    LET parts == Split(m)
    IN  IF ~HasField(parts, 1, <<114, 61>>) THEN ExpectedField("Nonce")
        ELSE IF ~HasField(parts, 2, <<115, 61>>) THEN ExpectedField("Salt")
        ELSE IF ~Base64Decode(Drop(parts[2], 2)).ok THEN InvalidField("Salt")
        ELSE IF ~HasField(parts, 3, <<105, 61>>) THEN ExpectedField("Iterations")
        ELSE IF ParseU16(Drop(parts[3], 2)) < 0 THEN InvalidField("Iterations")
        ELSE Ok

\* Each of the first three fields of m that is present has two bytes or more.
FieldsSliceable(m) ==
    \A k \in 1..3 : k <= Len(Split(m)) => Len(Split(m)[k]) >= 2

\* C8: the protocol error handle_server_first returns for a server-first
\* message that does not parse (and carries no extension) names the first
\* field at fault.
C8_ErrorNamesFaultyField ==
    \A h \in DOMAIN st :
        LET m == inp[h].server_first
        IN  (/\ Called(h, "handle_server_first")
             /\ ~StartsWith(m, <<109, 61>>)
             /\ Len(m) < 2 \/ FieldsSliceable(m)
             /\ FaultyFieldError(m) # Ok)
            => res[h].first = FaultyFieldError(m)

\* The server parsed the client-first message of handshake h and found the
\* account of the authcid in it.
ServerAccepts(h) ==
    /\ ServerParseClientFirst(sent[h][1]).ok
    /\ ServerParseClientFirst(sent[h][1]).username = inp[h].authcid

\* The positions at which two strings of the same length differ.
DiffPositions(a, b) == { i \in 1..Len(a) : a[i] # b[i] }

\* The position of the one byte of the nonce field of the conformant
\* server-first message that was changed before handshake h received it
\* (0: the message is not such a message).
TamperedPosition(h) ==
    LET c == ConformantServerFirst(sent[h][1])
        m == inp[h].server_first
        field == 3..(2 + Len(ServerParseClientFirst(sent[h][1]).nonce) + ServerNonceLen)
    IN  IF Len(m) = Len(c) /\ \E p \in field : DiffPositions(m, c) = {p}
        THEN CHOOSE p \in field : DiffPositions(m, c) = {p}
        ELSE 0

NonceTampered(h) ==
    /\ Called(h, "handle_server_first")
    /\ ServerAccepts(h)
    /\ TamperedPosition(h) > 0

\* handle_server_final of handshake h was given the verifier the server
\* computed from its own transcript.
GotConformantFinal(h) ==
    /\ Called(h, "handle_server_final")
    /\ inp[h].server_final = ConformantServerFinal(inp[h].password, sent[h][1])

\* C9 (as stated): after one byte of the nonce field was changed, either
\* handle_server_first fails with InvalidNonce or it succeeds and
\* handle_server_final fails with InvalidServer; there is no other outcome.
C9_TamperOutcome ==
    \A h \in DOMAIN st :
        NonceTampered(h) =>
            \/ res[h].first = InvalidNonce
            \/ /\ res[h].first = Ok
               /\ GotConformantFinal(h) => res[h].final = InvalidServer

\* C9 (amended): the handshake never ends in success.  A changed byte that
\* is not a comma gives InvalidNonce, or success of handle_server_first
\* followed by InvalidServer.  A byte changed into a comma splits the nonce
\* field: handle_server_first panics when the fragment after the comma is
\* shorter than two bytes, and otherwise fails with a protocol error that
\* names a missing or invalid field.
C9_TamperNeverSucceeds ==
    \A h \in DOMAIN st :
        NonceTampered(h) =>
            LET p == TamperedPosition(h)
                m == inp[h].server_first
                fragment == Split(m)[2]
            IN  /\ res[h].final # Ok \/ ~GotConformantFinal(h)
                /\ ~IsComma(m[p]) =>
                       \/ FailedFirstWith(h, InvalidNonce)
                       \/ /\ res[h].first = Ok
                          /\ GotConformantFinal(h) => res[h].final = InvalidServer
                /\ IsComma(m[p]) /\ Len(fragment) < 2 => FailedFirstWith(h, Panic)
                /\ IsComma(m[p]) /\ Len(fragment) >= 2 =>
                       /\ res[h].first.error = "Protocol"
                       /\ res[h].first.detail \in {"ExpectedField", "InvalidField"}
                       /\ FailedFirstWith(h, res[h].first)

C9_Witness ==
    \E h \in DOMAIN st :
        /\ NonceTampered(h)
        /\ res[h].first = Ok
        /\ GotConformantFinal(h)
        /\ res[h].final = InvalidServer

\* C10: the server accepts the client-first message of every handshake, and
\* a handshake that receives the server's own messages ends with Ok, the
\* client holding the ServerSignature the server computed.
C10_RoundTrip ==
    \A h \in DOMAIN st :
        Called(h, "client_first") =>
            /\ ServerAccepts(h)
            /\ (/\ Called(h, "handle_server_first")
                /\ inp[h].server_first = ConformantServerFirst(sent[h][1]))
               => /\ res[h].first = Ok
                  /\ ComputedServerSignature(h)
                         = ConformantServerSignature(inp[h].password, sent[h][1])
                  /\ GotConformantFinal(h) => res[h].final = Ok


\* The number of characters of a UTF-8 string: the bytes that are not
\* continuation bytes.
CharCount(s) == Cardinality({ i \in 1..Len(s) : ~(s[i] >= 128 /\ s[i] <= 191) })

\* C11: a server-first message shorter than 2 characters makes
\* handle_server_first fail with Protocol(ExpectedField(Nonce)); a
\* server-final message that is shorter than 2 characters, or whose first two
\* characters are neither `v=` nor `e=`, makes handle_server_final fail with
\* Protocol(ExpectedField(VerifyOrError)).
C11_LengthBoundaries ==
    \A h \in DOMAIN st :
        /\ (Called(h, "handle_server_first") /\ CharCount(inp[h].server_first) < 2)
               => FailedFirstWith(h, ExpectedField("Nonce"))
        /\ (/\ Called(h, "handle_server_final")
            /\ \/ CharCount(inp[h].server_final) < 2
               \/ /\ ~StartsWith(inp[h].server_final, <<118, 61>>)
                  /\ ~StartsWith(inp[h].server_final, <<101, 61>>))
               => res[h].final = ExpectedField("VerifyOrError")


\* C12: whenever the server-final message begins with `e=`,
\* handle_server_final fails with Authentication(reason), the reason being
\* exactly the remainder of the message after `e=` (possibly empty), whatever
\* ServerSignature the state holds; the result is not a protocol error, not
\* InvalidServer and not success.
C12_AuthenticationError ==
    \A h \in DOMAIN st :
        (Called(h, "handle_server_final") /\ StartsWith(inp[h].server_final, <<101, 61>>))
            => /\ res[h].final.kind = "Err"
               /\ res[h].final.error = "Authentication"
               /\ res[h].final.reason = Suffix(inp[h].server_final,
                                               Len(inp[h].server_final) - 2)
               /\ res[h].final \notin {Ok, InvalidServer}
               /\ st[h].tag = "Consumed"

\* The reason `invalid-encoding` was surfaced, and so was the empty reason.
C12_Witness ==
    \E h \in DOMAIN st :
        /\ Called(h, "handle_server_final")
        /\ StartsWith(inp[h].server_final, <<101, 61>>)
        /\ Len(inp[h].server_final) > 2
        /\ res[h].final = Authentication(Drop(inp[h].server_final, 2))
        /\ res[h].final.reason
               = <<105, 110, 118, 97, 108, 105, 100, 45, 101, 110, 99, 111, 100, 105, 110, 103>>


\* A handler of handshake h returned an error.
Errored(h) == res[h].first.kind = "Err" \/ res[h].final.kind = "Err"

\* Some operation of handshake h can be called (whether a handler can be
\* called does not depend on the message it is given).
OperationEnabled(h) ==
    \/ ENABLED (\E authcid \in Authcids, password \in Passwords,
                   authzid \in Authzids, b \in RngBehaviours :
                    with_rng(h, authcid, password, authzid, RngSamples(b)))
    \/ ENABLED client_first(h)
    \/ ENABLED handle_server_first(h, <<>>)
    \/ ENABLED client_final(h)
    \/ ENABLED handle_server_final(h, <<>>)

\* C13: every error is terminal.  Once handle_server_first or
\* handle_server_final of a handshake has returned an error, the state object
\* is consumed and no operation of the handshake is enabled; from then on
\* nothing of the handshake changes (no further client message, no second
\* result, no success).  A ClientFirst state comes only from the constructor,
\* which builds its nonce from samples it draws itself.
C13_ErrorsTerminal ==
    /\ [](\A h \in DOMAIN st :
            Errored(h) =>
                /\ st[h].tag = "Consumed"
                /\ ~OperationEnabled(h)
                /\ res[h].final # Ok
                /\ res[h].first.kind = "Err" =>
                       /\ Len(sent[h]) = 1
                       /\ res[h].final = NoResult)
    /\ [][\A h \in DOMAIN st :
            /\ Errored(h) =>
                   /\ st'[h] = st[h]
                   /\ sent'[h] = sent[h]
                   /\ res'[h] = res[h]
                   /\ calls'[h] = calls[h]
            /\ (st'[h].tag = "ClientFirst" /\ st'[h] # st[h]) =>
                   /\ st[h].tag = "None"
                   /\ calls'[h] = <<"with_rng">>
                   /\ st'[h].nonce = MakeNonce(inp'[h].samples)]_vars

\* Both kinds of terminal error were reached: handle_server_first failed, and
\* (in another run) handle_server_final failed after both client messages.
C13_Witness ==
    \E h \in DOMAIN st :
        /\ Called(h, "handle_server_final")
        /\ res[h].first = Ok
        /\ res[h].final = InvalidServer
        /\ st[h].tag = "Consumed"
        /\ Len(sent[h]) = 2


\* C14: both handlers are total: whatever the message is, a call of
\* handle_server_first or handle_server_final returns a success value or one
\* of the typed errors; no call panics.
C14_HandlersTotal ==
    \A h \in DOMAIN st :
        /\ Called(h, "handle_server_first") => res[h].first.kind \in {"Ok", "Err"}
        /\ Called(h, "handle_server_final") => res[h].final.kind \in {"Ok", "Err"}


\* The number a string of decimal digits denotes; -1 when the string is empty
\* or holds another character.
RECURSIVE DecimalFrom(_, _, _)
DecimalFrom(s, i, acc) ==
    IF i > Len(s) THEN acc
    ELSE IF s[i] < 48 \/ s[i] > 57 THEN -1
    ELSE DecimalFrom(s, i + 1, acc * 10 + (s[i] - 48))

DecimalValue(s) == IF s = <<>> THEN -1 ELSE DecimalFrom(s, 1, 0)

\* The server-first message m has a nonce field, a salt field that decodes
\* and an `i=` field.
ReachesIterations(m) ==
    LET parts == Split(m)
    IN  /\ HasField(parts, 1, <<114, 61>>)
        /\ HasField(parts, 2, <<115, 61>>)
        /\ Base64Decode(Drop(parts[2], 2)).ok
        /\ HasField(parts, 3, <<105, 61>>)

\* C15: the iteration count handle_server_first passes to the key derivation
\* is positive and is the number written in the `i=` field; `i=0` and a
\* number outside the representable range are rejected with a protocol
\* error, before any key is derived.
C15_IterationsPositive ==
    \A h \in DOMAIN st :
        (/\ Called(h, "handle_server_first")
         /\ ReachesIterations(inp[h].server_first)
         /\ DecimalValue(Drop(Split(inp[h].server_first)[3], 2)) >= 0)
        => LET n == DecimalValue(Drop(Split(inp[h].server_first)[3], 2))
               p == ParsedServerFirst(h)
           IN  /\ (n = 0 \/ n > 65535) =>
                      /\ res[h].first.kind = "Err"
                      /\ res[h].first.error = "Protocol"
               /\ (p.r = Ok /\ NonceAccepted(p.nonce, ClientNonceOf(h))) =>
                      /\ p.iterations = n
                      /\ p.iterations >= 1


\* The part of the emitted client-first message after the GS2 header.
EmittedBare(h) == Drop(sent[h][1], Len(Gs2Header(inp[h].authzid)))

\* The part of the emitted client-final message before `,p=` (the proof is
\* the last field).
EmittedWithoutProof(h) ==
    LET m == sent[h][2]
        proof == Split(m)[Len(Split(m))]
    IN  Take(m, Len(m) - Len(proof) - 1)

\* The auth-message, put together from what went over the wire.
WireAuthMessage(h) ==
    EmittedBare(h) \o Comma \o inp[h].server_first \o Comma \o EmittedWithoutProof(h)

\* C16: the auth-message handle_server_first signs is the emitted
\* client-first message without its GS2 header, a comma, the server-first
\* message exactly as received (fields after `i=` included), a comma, and the
\* emitted client-final message up to `,p=`; the ServerSignature and the
\* ClientSignature (inside the proof) are both computed over it.
C16_AuthMessageVerbatim ==
    \A h \in DOMAIN st :
        Called(h, "client_final") =>
            LET p == ParsedServerFirst(h)
                salted_password == SaltedPassword(inp[h].password, p.salt, p.iterations)
                client_key == ClientKey(salted_password)
                am == WireAuthMessage(h)
                proof == ClientProof(client_key,
                                     ClientSignature(StoredKey(client_key), am))
            IN  /\ ComputedServerSignature(h)
                       = ServerSignature(ServerKey(salted_password), am)
                /\ st[h].tag = "ServerFinal" =>
                       st[h].server_signature
                           = ServerSignature(ServerKey(salted_password), am)
                /\ sent[h][2] = EmittedWithoutProof(h) \o <<44, 112, 61>>
                                    \o Base64Encode(proof)
                /\ sent[h][1] = Gs2Header(inp[h].authzid) \o EmittedBare(h)

\* A server-first message with a field after `i=` was signed.
C16_Witness ==
    \E h \in DOMAIN st :
        /\ Called(h, "client_final")
        /\ Len(Split(inp[h].server_first)) = 4
        /\ st[h].tag = "ServerFinal"
        /\ st[h].server_signature
               = ServerSignature(
                     ServerKey(SaltedPassword(inp[h].password,
                                              ParsedServerFirst(h).salt,
                                              ParsedServerFirst(h).iterations)),
                     WireAuthMessage(h))


\* The GS2 header of handshake h, as the constructor's argument defines it:
\* `n,,` or `n,a=<authzid>,`.
HeaderOf(h) ==
    IF inp[h].authzid = <<>> THEN <<110, 44, 44>>
    ELSE <<110, 44, 97, 61>> \o inp[h].authzid[1] \o <<44>>

\* C17: the GS2 header is fixed by the constructor as `n,,` or
\* `n,a=<authzid>,`; every state that holds it holds that string, the
\* client-first message begins with it, and the `c=` field of the
\* client-final message (and of client-final-message-without-proof) is its
\* base64 encoding.
C17_HeaderFixed ==
    \A h \in DOMAIN st :
        /\ st[h].tag \in {"ClientFirst", "ServerFirst"} => st[h].gs2header = HeaderOf(h)
        /\ Called(h, "client_first") =>
               Take(sent[h][1], Len(HeaderOf(h))) = HeaderOf(h)
        /\ Called(h, "client_final") =>
               LET c == Split(sent[h][2])[1]
               IN  /\ c = <<99, 61>> \o Base64Encode(HeaderOf(h))
                   /\ Split(EmittedWithoutProof(h))[1] = c
                   /\ Base64Decode(Drop(c, 2)).ok
                   /\ Base64Decode(Drop(c, 2)).bytes
                          = Take(sent[h][1], Len(Base64Decode(Drop(c, 2)).bytes))

\* A handshake with an authzid emitted both client messages.
C17_Witness ==
    \E h \in DOMAIN st :
        /\ Called(h, "client_final")
        /\ inp[h].authzid # <<>>
        /\ Take(sent[h][1], 4) = <<110, 44, 97, 61>>
        /\ Base64Decode(Drop(Split(sent[h][2])[1], 2)).bytes = HeaderOf(h)


\* The ClientFinal state handle_server_first of handshake h returned.
ClientFinalStateOf(h) ==
    HandleServerFirst(ServerFirstStateOf(h), inp[h].server_first).next

\* C18: client_final is a pure pass-through.  The message it emits is the
\* client-final message handle_server_first assembled,
\* `c=<base64 GS2 header>,r=<server nonce>,p=<base64 ClientProof>`; the state
\* it returns holds the ServerSignature of the state it consumed; it can
\* always be called on a ClientFinal state, returns no error and changes
\* nothing else.
C18_ClientFinalPassThrough ==
    /\ [](\A h \in DOMAIN st :
            /\ st[h].tag = "ClientFinal" => ENABLED client_final(h)
            /\ Called(h, "client_final") =>
                   LET parts == Split(sent[h][2])
                   IN  /\ sent[h][2] = ClientFinalStateOf(h).client_final
                       /\ Len(parts) = 3
                       /\ parts[1] = <<99, 61>> \o Base64Encode(HeaderOf(h))
                       /\ parts[2] = <<114, 61>> \o ParsedServerFirst(h).nonce
                       /\ Take(parts[3], 2) = <<112, 61>>
                       /\ Base64Decode(Drop(parts[3], 2)).ok
                       /\ Len(Base64Decode(Drop(parts[3], 2)).bytes) = SHA256_LEN
                       /\ st[h].tag = "ServerFinal" =>
                              st[h].server_signature
                                  = ClientFinalStateOf(h).server_signature)
    /\ [][\A h \in DOMAIN st :
            (st[h].tag = "ClientFinal" /\ st'[h] # st[h]) =>
                /\ st'[h] = ServerFinal(st[h].server_signature)
                /\ sent'[h] = Append(sent[h], st[h].client_final)
                /\ calls'[h] = Append(calls[h], "client_final")
                /\ res' = res
                /\ inp' = inp]_vars

C18_Witness ==
    \E h \in DOMAIN st :
        /\ calls[h] = Take(PipelineOrder, 4)
        /\ st[h] = ServerFinal(ClientFinalStateOf(h).server_signature)
        /\ sent[h][2] = ClientFinalStateOf(h).client_final
        /\ res[h] = [first |-> Ok, final |-> NoResult]


\* What handshake h holds: its state object, the messages it emitted and the
\* results it returned.
Held(h) == [st |-> st[h], sent |-> sent[h], res |-> res[h]]

\* What a handshake holds after the calls handshake h made so far, when it
\* runs alone with the arguments and the server messages of handshake h.
RunAlone(h) ==
    LET n == Len(calls[h])
        s1 == WithRng(inp[h].authcid, inp[h].password, inp[h].authzid, inp[h].samples)
        s2 == ClientFirstNext(s1)
        r3 == HandleServerFirst(s2, inp[h].server_first)
        s4 == ClientFinalNext(r3.next)
        r5 == HandleServerFinal(s4, inp[h].server_final)
    IN  [st |-> IF n = 0 THEN NoState
                ELSE IF n = 1 THEN s1
                ELSE IF n = 2 THEN s2
                ELSE IF n = 3 THEN r3.next
                ELSE IF n = 4 THEN s4
                ELSE Consumed,
         sent |-> IF n < 2 THEN <<>>
                  ELSE IF n < 4 THEN <<ClientFirstMessage(s1)>>
                  ELSE <<ClientFirstMessage(s1), ClientFinalMessage(r3.next)>>,
         res |-> [first |-> IF n < 3 THEN NoResult ELSE r3.r,
                  final |-> IF n < 5 THEN NoResult ELSE r5]]

\* C19: two handshakes whose calls interleave do not affect each other.  In
\* every reachable state each handshake holds what it holds when it runs
\* alone with the same credentials, samples and server messages; and a step
\* that changes what one handshake holds (an error included) leaves what the
\* other one holds unchanged.
C19_Independent ==
    /\ [](\A h \in DOMAIN st :
            /\ calls[h] = Take(PipelineOrder, Len(calls[h]))
            /\ Held(h) = RunAlone(h))
    /\ [][\A h, g \in DOMAIN st :
            (h # g /\ Held(h)' # Held(h)) =>
                /\ Held(g)' = Held(g)
                /\ calls'[g] = calls[g]
                /\ inp'[g] = inp[g]
                /\ examined'[g] = examined[g]]_vars

\* Two handshakes with the same credentials and the same nonce: one has
\* failed in handle_server_first, the other has ended in success.
C19_Witness ==
    \E h, g \in DOMAIN st :
        /\ h # g
        /\ inp[h].samples = inp[g].samples
        /\ inp[h].password = inp[g].password
        /\ Called(h, "handle_server_first")
        /\ res[h].first = InvalidNonce
        /\ st[h].tag = "Consumed"
        /\ Called(g, "handle_server_final")
        /\ res[g].final = Ok


\* handle_server_final of handshake h compared a verifier that has the length
\* of a signature.
Compared(h) ==
    /\ Called(h, "handle_server_final")
    /\ StartsWith(inp[h].server_final, <<118, 61>>)
    /\ Base64Decode(Drop(inp[h].server_final, 2)).ok
    /\ Len(Base64Decode(Drop(inp[h].server_final, 2)).bytes) = SHA256_LEN

\* C20: the comparison of the verifier with the ServerSignature is
\* fixed-time: two calls of handle_server_final whose verifiers have the same
\* length examine the same number of bytes, wherever the first differing
\* byte is.
C20_FixedTimeComparison ==
    \A h, g \in DOMAIN st :
        (Compared(h) /\ Compared(g)) => examined[h] = examined[g]

====
